---- MODULE Spec2Model ----
(***************************************************************************)
(* A model of pytojsregex.py: the conversion of a Python regular           *)
(* expression into a JavaScript regex literal.  A pattern is a sequence of *)
(* one-character strings; main() parses the flag letters and               *)
(* py_to_js_regex() then runs its stages one after the other.  Every stage *)
(* of py_to_js_regex is one action; the helpers it calls are operators     *)
(* that compute what the Python code computes.                             *)
(***************************************************************************)
EXTENDS Integers, Sequences, FiniteSets, TLC

VARIABLES
    flags_str,        \* main(): args.flags, the flag letters given by the caller
    original_regex,   \* py_to_js_regex: the pattern as it was passed in
    py_flags,         \* the flag bit-set (an int of re.* bits)
    py_regex,         \* the pattern up to the verbose-mode stage
    js_regex,         \* the pattern from conservative_conversion on, at last the literal
    js_flags,         \* the JavaScript flag letters
    warnings_list,    \* the diagnostics, in the order they were appended
    regex,            \* the pattern the last stage read (a helper's parameter `regex`)
    pc                \* the stage py_to_js_regex is about to run

vars == <<flags_str, original_regex, py_flags, py_regex, js_regex, js_flags,
          warnings_list, regex, pc>>

(***************************************************************************)
(* Characters                                                              *)
(***************************************************************************)
BS == "\\"
NL == "\n"

\* \w of the re module, on the ASCII range
WordChars ==
    {"a","b","c","d","e","f","g","h","i","j","k","l","m","n","o","p","q","r","s","t",
     "u","v","w","x","y","z","A","B","C","D","E","F","G","H","I","J","K","L","M","N",
     "O","P","Q","R","S","T","U","V","W","X","Y","Z","0","1","2","3","4","5","6","7",
     "8","9","_"}

\* \s of the re module and the default of str.strip(), on the ASCII range
Whitespace == {" ", "\t", "\n", "\r", "\f"}

(***************************************************************************)
(* str methods and literal searches                                        *)
(***************************************************************************)
\* regex[i:i+len(p)] == p, with 1-based i
MatchAt(s, i, p) ==
    /\ i + Len(p) - 1 <= Len(s)
    /\ SubSeq(s, i, i + Len(p) - 1) = p

\* p in s
Contains(s, p) == \E i \in 1..Len(s) : MatchAt(s, i, p)

RECURSIVE ReplaceFrom(_, _, _, _)
ReplaceFrom(s, i, old, new) ==
    IF i > Len(s) THEN <<>>
    ELSE IF MatchAt(s, i, old) THEN new \o ReplaceFrom(s, i + Len(old), old, new)
    ELSE <<s[i]>> \o ReplaceFrom(s, i + 1, old, new)

\* s.replace(old, new), and re.sub of a literal pattern by a literal replacement
str_replace(s, old, new) == ReplaceFrom(s, 1, old, new)

RECURSIVE lstrip(_, _)
lstrip(s, chars) ==
    IF s # <<>> /\ Head(s) \in chars THEN lstrip(Tail(s), chars) ELSE s

RECURSIVE rstrip(_, _)
rstrip(s, chars) ==
    IF s # <<>> /\ s[Len(s)] \in chars THEN rstrip(SubSeq(s, 1, Len(s) - 1), chars) ELSE s

strip(s, chars) == rstrip(lstrip(s, chars), chars)

(***************************************************************************)
(* Flags: re.IGNORECASE, re.MULTILINE, re.DOTALL, re.UNICODE, re.VERBOSE   *)
(***************************************************************************)
IGNORECASE == 2
MULTILINE == 8
DOTALL == 16
UNICODE == 32
VERBOSE == 64

\* flags & bit
HasFlag(flags, bit) == (flags \div bit) % 2 = 1
\* flags | bit
SetFlag(flags, bit) == IF HasFlag(flags, bit) THEN flags ELSE flags + bit
\* flags & ~bit
ClearFlag(flags, bit) == IF HasFlag(flags, bit) THEN flags - bit ELSE flags

\* 'c' in flags_str
HasLetter(str, c) == \E i \in 1..Len(str) : str[i] = c

parse_flags(str) ==
    LET f1 == IF HasLetter(str, "i") THEN SetFlag(0, IGNORECASE) ELSE 0
        f2 == IF HasLetter(str, "m") THEN SetFlag(f1, MULTILINE) ELSE f1
        f3 == IF HasLetter(str, "s") THEN SetFlag(f2, DOTALL) ELSE f2
        f4 == IF HasLetter(str, "x") THEN SetFlag(f3, VERBOSE) ELSE f3
        f5 == IF HasLetter(str, "u") THEN SetFlag(f4, UNICODE) ELSE f4
    IN  f5

\* handle_flags with a letter for every bit of the flag set, VERBOSE too
handle_flags_verbose_letter(flags) ==
    LET s1 == IF HasFlag(flags, IGNORECASE) THEN <<"i">> ELSE <<>>
        s2 == IF HasFlag(flags, MULTILINE) THEN s1 \o <<"m">> ELSE s1
        s3 == IF HasFlag(flags, DOTALL) THEN s2 \o <<"s">> ELSE s2
        s4 == IF HasFlag(flags, VERBOSE) THEN s3 \o <<"x">> ELSE s3
        s5 == IF HasFlag(flags, UNICODE) THEN s4 \o <<"u">> ELSE s4
    IN  s5

handle_flags(flags) ==
    LET s1 == IF HasFlag(flags, IGNORECASE) THEN <<"i">> ELSE <<>>
        s2 == IF HasFlag(flags, MULTILINE) THEN s1 \o <<"m">> ELSE s1
        s3 == IF HasFlag(flags, DOTALL) THEN s2 \o <<"s">> ELSE s2
        s4 == IF HasFlag(flags, UNICODE) THEN s3 \o <<"u">> ELSE s3
    IN  s4

(***************************************************************************)
(* handle_verbose_mode                                                     *)
(***************************************************************************)
\* re.sub(r'(?<!\\)#.*$', '', regex, flags=re.MULTILINE): a '#' that no backslash
\* precedes is removed with the rest of its line; the newline itself stays.
RECURSIVE CommentScan(_, _, _)
CommentScan(s, i, in_comment) ==
    IF i > Len(s) THEN <<>>
    ELSE IF in_comment
         THEN IF s[i] = NL THEN <<NL>> \o CommentScan(s, i + 1, FALSE)
              ELSE CommentScan(s, i + 1, TRUE)
    ELSE IF s[i] = "#" /\ (i = 1 \/ s[i - 1] # BS) THEN CommentScan(s, i + 1, TRUE)
    ELSE <<s[i]>> \o CommentScan(s, i + 1, FALSE)

RemoveComments(s) == CommentScan(s, 1, FALSE)

\* [^[\]]*$ : no bracket from i to the end
NoBracketFrom(s, i) == \A j \in i..Len(s) : s[j] \notin {"[", "]"}

\* The lookahead of the whitespace rule,
\*   (?:[^[\]()\\]*(?:\\.[^[\]()\\]*)*\[[^[\]]*\])*[^[\]]*$
\* read from position i: blocks of (plain characters and escape pairs, then a
\* bracketed span without brackets in it), then a bracket-free rest.
\* LookBlock is at the start of a block, LookPrefix before the block's '[',
\* LookClass inside the bracketed span.
RECURSIVE LookBlock(_, _), LookPrefix(_, _), LookClass(_, _)
LookBlock(s, i) == NoBracketFrom(s, i) \/ LookPrefix(s, i)

LookPrefix(s, i) ==
    IF i > Len(s) THEN FALSE
    ELSE IF s[i] = "[" THEN LookClass(s, i + 1)
    ELSE IF s[i] = BS THEN i + 1 <= Len(s) /\ s[i + 1] # NL /\ LookPrefix(s, i + 2)
    ELSE IF s[i] \in {"]", "(", ")"} THEN FALSE
    ELSE LookPrefix(s, i + 1)

LookClass(s, i) ==
    IF i > Len(s) THEN FALSE
    ELSE IF s[i] = "[" THEN FALSE
    ELSE IF s[i] = "]" THEN LookBlock(s, i + 1)
    ELSE LookClass(s, i + 1)

\* re.sub(r'\s+(?=...)', '', regex): a whitespace character goes when the
\* lookahead holds behind it (the lookahead is the same all along a run of
\* whitespace, so a run goes as a whole or stays as a whole)
RECURSIVE WhitespaceScan(_, _)
WhitespaceScan(s, i) ==
    IF i > Len(s) THEN <<>>
    ELSE IF s[i] \in Whitespace /\ LookBlock(s, i + 1) THEN WhitespaceScan(s, i + 1)
    ELSE <<s[i]>> \o WhitespaceScan(s, i + 1)

RemoveWhitespace(s) == WhitespaceScan(s, 1)

handle_verbose_mode(s) ==
    LET no_comments == RemoveComments(s)
        no_space == RemoveWhitespace(no_comments)
        no_marker == str_replace(no_space, <<"(", "?", "x", ")">>, <<>>)
    IN  strip(no_marker, Whitespace)

(***************************************************************************)
(* conservative_conversion                                                 *)
(***************************************************************************)
\* the last index of the run of \w characters that starts at j (j - 1: no run)
RECURSIVE WordRunEnd(_, _)
WordRunEnd(s, j) ==
    IF j <= Len(s) /\ s[j] \in WordChars THEN WordRunEnd(s, j + 1) ELSE j - 1

\* The end of the match of  open \w+ close  at i, 0 when there is none
\* (\w+ is greedy and close is no \w character: the run is the whole run).
NamedMatchEnd(s, i, open, close) ==
    IF ~MatchAt(s, i, open) THEN 0
    ELSE LET k == WordRunEnd(s, i + Len(open))
         IN  IF k >= i + Len(open) /\ k + 1 <= Len(s) /\ s[k + 1] = close
             THEN k + 1 ELSE 0

NamedGroupOpen == <<"(", "?", "P", "<">>
NamedGroupRef == <<"(", "?", "P", "=">>

\* re.sub(r'\(\?P<(\w+)>', r'(?<\1>', js_regex)
RECURSIVE NamedGroupScan(_, _)
NamedGroupScan(s, i) ==
    IF i > Len(s) THEN <<>>
    ELSE LET e == NamedMatchEnd(s, i, NamedGroupOpen, ">")
         IN  IF e > 0
             THEN <<"(", "?", "<">> \o SubSeq(s, i + 4, e - 1) \o <<">">>
                  \o NamedGroupScan(s, e + 1)
             ELSE <<s[i]>> \o NamedGroupScan(s, i + 1)

\* the first index >= j that holds c, 0 when there is none
RECURSIVE FirstIndex(_, _, _)
FirstIndex(s, j, c) ==
    IF j > Len(s) THEN 0
    ELSE IF s[j] = c THEN j
    ELSE FirstIndex(s, j + 1, c)

NonCapturingOpen == <<"(", "?", ":">>

\* The end of the match of \(\?:[^)]*?\)\? at i, 0 when there is none: the
\* body cannot hold a ')', so the group ends at the first ')' behind the
\* opener, and a '?' has to follow it.
OptionalGroupEnd(s, i) ==
    IF ~MatchAt(s, i, NonCapturingOpen) THEN 0
    ELSE LET k == FirstIndex(s, i + 3, ")")
         IN  IF k > 0 /\ k + 1 <= Len(s) /\ s[k + 1] = "?" THEN k + 1 ELSE 0

\* re.sub(r'\(\?:[^)]*?\)\?', lambda m: f'(?:{m.group(0)})?', js_regex)
RECURSIVE WrapOptionalGroups(_, _)
WrapOptionalGroups(s, i) ==
    IF i > Len(s) THEN <<>>
    ELSE LET e == OptionalGroupEnd(s, i)
         IN  IF e > 0
             THEN NonCapturingOpen \o SubSeq(s, i, e) \o <<")", "?">>
                  \o WrapOptionalGroups(s, e + 1)
             ELSE <<s[i]>> \o WrapOptionalGroups(s, i + 1)

conservative_conversion(s) ==
    LET anchors == str_replace(str_replace(s, <<BS, "A">>, <<"^">>), <<BS, "Z">>, <<"$">>)
        named == NamedGroupScan(anchors, 1)
    IN  WrapOptionalGroups(named, 1)

(***************************************************************************)
(* handle_named_group_references                                           *)
(***************************************************************************)
\* The diagnostics: a kind, and for a named reference the name it holds.
NamedRefWarning(name) == <<"NamedGroupReference", name>>
AtomicWarning == <<"AtomicGroups">>
UnicodeWarning == <<"UnicodeProperty">>
LookbehindWarning == <<"Lookbehind">>
AnyCharWarning == <<"NotNewline">>
ConditionalWarning == <<"Conditional">>

\* re.sub(r'\(\?P=(\w+)\)', replace_named_ref, regex): each match becomes
\* \k<name> and appends one warning
RECURSIVE NamedRefScan(_, _, _)
NamedRefScan(s, i, acc) ==
    IF i > Len(s) THEN acc
    ELSE LET e == NamedMatchEnd(s, i, NamedGroupRef, ")")
             name == SubSeq(s, i + 4, e - 1)
         IN  IF e > 0
             THEN NamedRefScan(s, e + 1,
                      [regex |-> acc.regex \o <<BS, "k", "<">> \o name \o <<">">>,
                       warnings |-> Append(acc.warnings, NamedRefWarning(name))])
             ELSE NamedRefScan(s, i + 1,
                      [regex |-> Append(acc.regex, s[i]), warnings |-> acc.warnings])

\* handle_named_group_references that warns once however many references it converts
named_group_references_warned_once(s) ==
    LET r == NamedRefScan(s, 1, [regex |-> <<>>, warnings |-> <<>>])
    IN  [regex |-> r.regex,
         warnings |-> IF r.warnings = <<>> THEN <<>> ELSE <<r.warnings[1]>>]

handle_named_group_references(s) ==
    NamedRefScan(s, 1, [regex |-> <<>>, warnings |-> <<>>])

(***************************************************************************)
(* preserve_complex_pattern                                                *)
(***************************************************************************)
\* re.sub(r'\(\?:([^)]*?)\)\?', lambda m: f'(?:{m.group(1)})?', regex): the
\* match is rebuilt from its opener, its body and its closer
RECURSIVE RebuildOptionalGroups(_, _)
RebuildOptionalGroups(s, i) ==
    IF i > Len(s) THEN <<>>
    ELSE LET e == OptionalGroupEnd(s, i)
         IN  IF e > 0
             THEN NonCapturingOpen \o SubSeq(s, i + 3, e - 2) \o <<")", "?">>
                  \o RebuildOptionalGroups(s, e + 1)
             ELSE <<s[i]>> \o RebuildOptionalGroups(s, i + 1)

\* The second and the third re.sub replace each match by m.group(0), the
\* matched text itself: whatever they match, the string they return is the
\* string they were given.
preserve_complex_pattern(s) == RebuildOptionalGroups(s, 1)

(***************************************************************************)
(* handle_atomic_groups, handle_unicode_properties,                        *)
(* check_unsupported_features                                              *)
(***************************************************************************)
AtomicOpen == <<"(", "?", ">">>

handle_atomic_groups(s) ==
    IF Contains(s, AtomicOpen)
    THEN [regex |-> str_replace(s, AtomicOpen, NonCapturingOpen),
          warnings |-> <<AtomicWarning>>]
    ELSE [regex |-> s, warnings |-> <<>>]

handle_unicode_properties(s) ==
    IF Contains(s, <<BS, "p">>) \/ Contains(s, <<BS, "P">>)
    THEN [regex |-> s, warnings |-> <<UnicodeWarning>>]
    ELSE [regex |-> s, warnings |-> <<>>]

ConditionalOpen == <<"(", "?", "(", "1", ")">>

check_unsupported_features(s) ==
    IF Contains(s, ConditionalOpen) THEN <<ConditionalWarning>> ELSE <<>>

(***************************************************************************)
(* balance_parentheses                                                     *)
(***************************************************************************)
RECURSIVE Closers(_)
Closers(n) == IF n = 0 THEN <<>> ELSE <<")">> \o Closers(n - 1)

\* The while loop at 1-based index i, then the loop that closes what is open.
\* regex[i:i+2] is one character when the backslash is the last one.
RECURSIVE BalanceLoop(_, _, _, _)
BalanceLoop(s, i, stack, result) ==
    IF i > Len(s) THEN result \o Closers(Len(stack))
    ELSE IF s[i] = BS
         THEN BalanceLoop(s, i + 2, stack,
                          result \o SubSeq(s, i, IF i + 1 <= Len(s) THEN i + 1 ELSE i))
    ELSE IF s[i] = "(" THEN BalanceLoop(s, i + 1, Append(stack, i), Append(result, s[i]))
    ELSE IF s[i] = ")"
         THEN IF stack # <<>>
              THEN BalanceLoop(s, i + 1, SubSeq(stack, 1, Len(stack) - 1),
                               Append(result, s[i]))
              ELSE BalanceLoop(s, i + 1, stack, result \o <<BS, s[i]>>)
    ELSE BalanceLoop(s, i + 1, stack, Append(result, s[i]))

\* balance_parentheses whose escape branch copies the backslash alone
\* (result += regex[i]; i += 2)
RECURSIVE BalanceLoopLosingEscaped(_, _, _, _)
BalanceLoopLosingEscaped(s, i, stack, result) ==
    IF i > Len(s) THEN result \o Closers(Len(stack))
    ELSE IF s[i] = BS
         THEN BalanceLoopLosingEscaped(s, i + 2, stack, Append(result, s[i]))
    ELSE IF s[i] = "("
         THEN BalanceLoopLosingEscaped(s, i + 1, Append(stack, i), Append(result, s[i]))
    ELSE IF s[i] = ")"
         THEN IF stack # <<>>
              THEN BalanceLoopLosingEscaped(s, i + 1, SubSeq(stack, 1, Len(stack) - 1),
                                            Append(result, s[i]))
              ELSE BalanceLoopLosingEscaped(s, i + 1, stack, result \o <<BS, s[i]>>)
    ELSE BalanceLoopLosingEscaped(s, i + 1, stack, Append(result, s[i]))

balance_parentheses_losing_escaped(s) == BalanceLoopLosingEscaped(s, 1, <<>>, <<>>)

balance_parentheses(s) == BalanceLoop(s, 1, <<>>, <<>>)

(***************************************************************************)
(* The inputs: patterns put together from the pieces the stages look for,  *)
(* each family with the flag letters that send it through its stages.      *)
(***************************************************************************)
MaxTokens == 3
MaxVerbose == 4
MaxChars == 5
MaxWrap == 4
MaxFlagLen == 4
MaxDiagnosed == 4

\* the strings made of at most n pieces of T
RECURSIVE Strings(_, _)
Strings(T, n) ==
    IF n = 0 THEN {<<>>}
    ELSE LET S == Strings(T, n - 1) IN S \cup {s \o t : s \in S, t \in T}

\* the constructs the rewrite rules and the diagnostics look for
RewriteTokens ==
    { <<"(", "?", ":">>, <<")", "?">>, <<"(", "?", ">">>,
      <<"(", "?", "P", "=", "n", ")">>, <<"(", "?", "P", "<", "n", ">">>,
      <<"(", "?", "(", "1", ")">>, <<"(", "?", "(", "2", ")">>,
      <<"(", "?", "<", "=">>, <<BS>>, <<BS, "A">>, <<BS, "N">>, <<BS, "p">>,
      <<"[">>, <<"]">>, <<"x">> }

\* layout, comments, classes, groups and escapes of a verbose pattern
VerboseTokens ==
    { <<"a">>, <<" ">>, <<NL>>, <<"#">>, <<"(">>, <<"[">>, <<"]">>, <<BS>>,
      <<"(", "?", "x", ")">> }

\* the constructs that have a diagnostic, with two names to refer to
DiagnosedTokens ==
    { <<"(", "?", "P", "=", "n", ")">>, <<"(", "?", "P", "=", "a", "1", ")">>,
      <<"(", "?", ">">>, <<BS, "p">>, <<BS, "N">>, <<"(", "?", "<", "!">>,
      <<"(", "?", "(", "1", ")">> }

\* group delimiters and escapes
BalanceChars == { <<"(">>, <<")">>, <<BS>>, <<"a">> }

\* the raw-string marker and the quotes around a pattern
WrapChars == { <<"r">>, <<"'">>, <<"\"">>, <<"a">> }

\* the letters of the flag table, and one outside it
FlagLetters == { <<"i">>, <<"m">>, <<"s">>, <<"x">>, <<"u">>, <<"z">> }

Inputs ==
    (Strings(RewriteTokens, MaxTokens) \X {<<>>})
    \cup (Strings(VerboseTokens, MaxVerbose) \X {<<"x">>})
    \cup (Strings(DiagnosedTokens, MaxDiagnosed) \X {<<>>})
    \cup (Strings(BalanceChars, MaxChars) \X {<<>>})
    \cup (Strings(WrapChars, MaxWrap) \X {<<>>})
    \cup ({<<"a">>, <<"a", " ", "#">>} \X Strings(FlagLetters, MaxFlagLen))

(***************************************************************************)
(* main() and py_to_js_regex(), one action per stage                       *)
(***************************************************************************)
Init ==
    \E inp \in Inputs :
        /\ original_regex = inp[1]
        /\ flags_str = inp[2]
        /\ py_flags = 0
        /\ py_regex = inp[1]
        /\ js_regex = <<>>
        /\ js_flags = <<>>
        /\ warnings_list = <<>>
        /\ regex = <<>>
        /\ pc = "parse_flags"

\* main(): py_flags = parse_flags(args.flags)
ParseFlags ==
    /\ pc = "parse_flags"
    /\ py_flags' = parse_flags(flags_str)
    /\ pc' = "strip"
    /\ UNCHANGED <<flags_str, original_regex, py_regex, js_regex, js_flags,
                   warnings_list, regex>>

\* py_regex = py_regex.lstrip('r').strip("'\"")
StripQuotes ==
    /\ pc = "strip"
    /\ regex' = py_regex
    /\ py_regex' = strip(lstrip(py_regex, {"r"}), {"'", "\""})
    /\ pc' = "verbose"
    /\ UNCHANGED <<flags_str, original_regex, py_flags, js_regex, js_flags,
                   warnings_list>>

\* if py_flags & re.VERBOSE: handle_verbose_mode, and the flag is cleared
VerboseMode ==
    /\ pc = "verbose"
    /\ regex' = py_regex
    /\ IF HasFlag(py_flags, VERBOSE)
       THEN /\ py_regex' = handle_verbose_mode(py_regex)
            /\ py_flags' = ClearFlag(py_flags, VERBOSE)
       ELSE UNCHANGED <<py_regex, py_flags>>
    /\ pc' = "convert"
    /\ UNCHANGED <<flags_str, original_regex, js_regex, js_flags, warnings_list>>

\* js_regex = conservative_conversion(py_regex)
Convert ==
    /\ pc = "convert"
    /\ regex' = py_regex
    /\ js_regex' = conservative_conversion(py_regex)
    /\ pc' = "named_refs"
    /\ UNCHANGED <<flags_str, original_regex, py_flags, py_regex, js_flags,
                   warnings_list>>

NamedRefs ==
    /\ pc = "named_refs"
    /\ regex' = js_regex
    /\ LET r == handle_named_group_references(js_regex)
       IN  /\ js_regex' = r.regex
           /\ warnings_list' = warnings_list \o r.warnings
    /\ pc' = "non_capturing"
    /\ UNCHANGED <<flags_str, original_regex, py_flags, py_regex, js_flags>>

\* js_regex = re.sub(r'\(\?:', r'(?:', js_regex)
NonCapturing ==
    /\ pc = "non_capturing"
    /\ regex' = js_regex
    /\ js_regex' = str_replace(js_regex, NonCapturingOpen, NonCapturingOpen)
    /\ pc' = "preserve"
    /\ UNCHANGED <<flags_str, original_regex, py_flags, py_regex, js_flags,
                   warnings_list>>

Preserve ==
    /\ pc = "preserve"
    /\ regex' = js_regex
    /\ js_regex' = preserve_complex_pattern(js_regex)
    /\ pc' = "atomic"
    /\ UNCHANGED <<flags_str, original_regex, py_flags, py_regex, js_flags,
                   warnings_list>>

Atomic ==
    /\ pc = "atomic"
    /\ regex' = js_regex
    /\ LET r == handle_atomic_groups(js_regex)
       IN  /\ js_regex' = r.regex
           /\ warnings_list' = warnings_list \o r.warnings
    /\ pc' = "unicode"
    /\ UNCHANGED <<flags_str, original_regex, py_flags, py_regex, js_flags>>

Unicode ==
    /\ pc = "unicode"
    /\ regex' = js_regex
    /\ LET r == handle_unicode_properties(js_regex)
       IN  /\ js_regex' = r.regex
           /\ warnings_list' = warnings_list \o r.warnings
    /\ pc' = "lookbehind"
    /\ UNCHANGED <<flags_str, original_regex, py_flags, py_regex, js_flags>>

\* if '(?<=' in js_regex or '(?<!' in js_regex: one warning
Lookbehind ==
    /\ pc = "lookbehind"
    /\ regex' = js_regex
    /\ warnings_list' =
           IF \/ Contains(js_regex, <<"(", "?", "<", "=">>)
              \/ Contains(js_regex, <<"(", "?", "<", "!">>)
           THEN Append(warnings_list, LookbehindWarning)
           ELSE warnings_list
    /\ pc' = "escapes"
    /\ UNCHANGED <<flags_str, original_regex, py_flags, py_regex, js_regex, js_flags>>

\* \a becomes \x07; then, if \N is in the pattern, each \N becomes [^\n], with
\* one warning
Escapes ==
    /\ pc = "escapes"
    /\ regex' = js_regex
    /\ LET bell == str_replace(js_regex, <<BS, "a">>, <<BS, "x", "0", "7">>)
       IN  IF Contains(bell, <<BS, "N">>)
           THEN /\ js_regex' = str_replace(bell, <<BS, "N">>, <<"[", "^", BS, "n", "]">>)
                /\ warnings_list' = Append(warnings_list, AnyCharWarning)
           ELSE /\ js_regex' = bell
                /\ UNCHANGED warnings_list
    /\ pc' = "newlines"
    /\ UNCHANGED <<flags_str, original_regex, py_flags, py_regex, js_flags>>

\* js_regex = re.sub(r'\n', r'\\n', js_regex): a newline becomes backslash, n
Newlines ==
    /\ pc = "newlines"
    /\ regex' = js_regex
    /\ js_regex' = str_replace(js_regex, <<NL>>, <<BS, "n">>)
    /\ pc' = "unsupported"
    /\ UNCHANGED <<flags_str, original_regex, py_flags, py_regex, js_flags,
                   warnings_list>>

Unsupported ==
    /\ pc = "unsupported"
    /\ regex' = js_regex
    /\ warnings_list' = warnings_list \o check_unsupported_features(js_regex)
    /\ pc' = "balance"
    /\ UNCHANGED <<flags_str, original_regex, py_flags, py_regex, js_regex, js_flags>>

Balance ==
    /\ pc = "balance"
    /\ regex' = js_regex
    /\ js_regex' = balance_parentheses(js_regex)
    /\ pc' = "flags"
    /\ UNCHANGED <<flags_str, original_regex, py_flags, py_regex, js_flags,
                   warnings_list>>

Flags ==
    /\ pc = "flags"
    /\ js_flags' = handle_flags(py_flags)
    /\ pc' = "assemble"
    /\ UNCHANGED <<flags_str, original_regex, py_flags, py_regex, js_regex,
                   warnings_list, regex>>

\* js_regex = f"/{js_regex}/{js_flags}", and the return
Assemble ==
    /\ pc = "assemble"
    /\ regex' = js_regex
    /\ js_regex' = <<"/">> \o js_regex \o <<"/">> \o js_flags
    /\ pc' = "done"
    /\ UNCHANGED <<flags_str, original_regex, py_flags, py_regex, js_flags,
                   warnings_list>>

Next ==
    \/ ParseFlags
    \/ StripQuotes
    \/ VerboseMode
    \/ Convert
    \/ NamedRefs
    \/ NonCapturing
    \/ Preserve
    \/ Atomic
    \/ Unicode
    \/ Lookbehind
    \/ Escapes
    \/ Newlines
    \/ Unsupported
    \/ Balance
    \/ Flags
    \/ Assemble

Spec == Init /\ [][Next]_vars

(***************************************************************************)
(* What the properties speak of                                            *)
(***************************************************************************)
\* E[i]: the character at i is the second one of an escape pair (a backslash
\* and the character behind it, read from the left)
EscapedAt(s) ==
    LET E[i \in 0..Len(s)] ==
            IF i <= 1 THEN FALSE ELSE s[i - 1] = BS /\ ~E[i - 1]
    IN  E

\* the first index >= j that holds an unescaped c, 0 when there is none
RECURSIVE FirstUnescaped(_, _, _)
FirstUnescaped(s, j, c) ==
    IF j > Len(s) THEN 0
    ELSE IF s[j] = c /\ ~EscapedAt(s)[j] THEN j
    ELSE FirstUnescaped(s, j + 1, c)

\* the positions of the character classes: from an unescaped '[' to the next
\* unescaped ']', both included
RECURSIVE ClassPositionsFrom(_, _)
ClassPositionsFrom(s, i) ==
    IF i > Len(s) THEN {}
    ELSE IF s[i] = "[" /\ ~EscapedAt(s)[i]
         THEN LET j == FirstUnescaped(s, i + 1, "]")
              IN  IF j > 0 THEN (i..j) \cup ClassPositionsFrom(s, j + 1)
                  ELSE ClassPositionsFrom(s, i + 1)
    ELSE ClassPositionsFrom(s, i + 1)

ClassPositions(s) == ClassPositionsFrom(s, 1)

\* the number of the non-overlapping occurrences of p a left-to-right scan finds
RECURSIVE CountFrom(_, _, _)
CountFrom(s, i, p) ==
    IF i > Len(s) THEN 0
    ELSE IF MatchAt(s, i, p) THEN 1 + CountFrom(s, i + Len(p), p)
    ELSE CountFrom(s, i + 1, p)

Occurrences(s, p) == CountFrom(s, 1, p)

\* the pattern between the two '/' of the literal
LiteralBody == SubSeq(js_regex, 2, Len(js_regex) - Len(js_flags) - 1)

VerboseRequested == HasLetter(flags_str, "x")

CountKind(kind) ==
    LET OfKind(w) == w[1] = kind IN Len(SelectSeq(warnings_list, OfKind))

\* the number of the matches of  open \w+ close  a left-to-right scan finds
RECURSIVE CountNamed(_, _, _, _)
CountNamed(s, i, open, close) ==
    IF i > Len(s) THEN 0
    ELSE LET e == NamedMatchEnd(s, i, open, close)
         IN  IF e > 0 THEN 1 + CountNamed(s, e + 1, open, close)
             ELSE CountNamed(s, i + 1, open, close)

AtMostOne(n) == IF n > 0 THEN 1 ELSE 0

(***************************************************************************)
(* C1                                                                      *)
(***************************************************************************)
\* The depth of open groups behind s, a backslash and the character behind it
\* being one pair that is not looked at; -1 once a ')' comes with none open.
RECURSIVE DepthScan(_, _, _)
DepthScan(s, i, depth) ==
    IF i > Len(s) THEN depth
    ELSE IF s[i] = BS THEN DepthScan(s, i + 2, depth)
    ELSE IF s[i] = "(" THEN DepthScan(s, i + 1, depth + 1)
    ELSE IF s[i] = ")"
         THEN IF depth = 0 THEN -1 ELSE DepthScan(s, i + 1, depth - 1)
    ELSE DepthScan(s, i + 1, depth)

IsBalanced(s) == DepthScan(s, 1, 0) = 0

\* C1: the pattern body of the literal py_to_js_regex returns is
\* delimiter-balanced for every input: as many unescaped '(' as unescaped ')',
\* and no unescaped ')' while no '(' is open.
C1_DelimiterBalance == pc = "done" => IsBalanced(LiteralBody)

(***************************************************************************)
(* C2                                                                      *)
(***************************************************************************)
\* the letters of "imsu" that occur in str, in that order
TableLetters(str) ==
    LET InStr(c) == HasLetter(str, c) IN SelectSeq(<<"i", "m", "s", "u">>, InStr)

\* C2: handle_flags(parse_flags(s)), and the flag suffix of the literal, is
\* the subsequence of "imsu" made of the letters that occur in s: no table
\* letter of s is dropped, none is added, a letter outside the table is
\* dropped, and 'x' never comes out.
C2_FlagLetters ==
    /\ handle_flags(parse_flags(flags_str)) = TableLetters(flags_str)
    /\ pc \in {"assemble", "done"} => js_flags = TableLetters(flags_str)
    /\ pc = "done" =>
           /\ Len(js_regex) >= Len(TableLetters(flags_str)) + 2
           /\ SubSeq(js_regex, Len(js_regex) - Len(js_flags) + 1, Len(js_regex))
                  = TableLetters(flags_str)
           /\ js_regex[Len(js_regex) - Len(js_flags)] = "/"
           /\ \A i \in 1..Len(js_flags) : js_flags[i] # "x"

\* letters out of order, the verbose letter and a letter outside the table
C2_Witness ==
    /\ pc = "done"
    /\ flags_str = <<"u", "x", "z", "i">>
    /\ js_flags = <<"i", "u">>

(***************************************************************************)
(* C3                                                                      *)
(***************************************************************************)
\* (?: , plain characters, )? and nothing else
IsPlainOptionalGroup(s) ==
    /\ Len(s) >= 5
    /\ SubSeq(s, 1, 3) = NonCapturingOpen
    /\ SubSeq(s, Len(s) - 1, Len(s)) = <<")", "?">>
    /\ \A i \in 4..(Len(s) - 2) : s[i] \in {"x", "a"}

\* C3: an optional non-capturing group (?:...)? of the input, with nothing
\* else to rewrite in it, is byte-identical in the converted pattern body:
\* (?:x)? converts to /(?:x)?/.
C3_OptionalGroupUnchanged ==
    (pc = "done" /\ flags_str = <<>> /\ IsPlainOptionalGroup(original_regex))
        => js_regex = <<"/">> \o original_regex \o <<"/">>

(***************************************************************************)
(* C4                                                                      *)
(***************************************************************************)
UnicodeCount(s) == Occurrences(s, <<BS, "p">>) + Occurrences(s, <<BS, "P">>)
LookbehindCount(s) ==
    Occurrences(s, <<"(", "?", "<", "=">>) + Occurrences(s, <<"(", "?", "<", "!">>)
AnyCharCount(s) ==
    Occurrences(str_replace(s, <<BS, "a">>, <<BS, "x", "0", "7">>), <<BS, "N">>)

\* C4 as the claim states it: k occurrences of a diagnosed construct in the
\* pattern a stage reads give exactly k diagnostics of that construct.
C4_OnePerOccurrence ==
    /\ pc = "non_capturing" =>
           CountKind("NamedGroupReference") = CountNamed(regex, 1, NamedGroupRef, ")")
    /\ pc = "unicode" => CountKind("AtomicGroups") = Occurrences(regex, AtomicOpen)
    /\ pc = "lookbehind" => CountKind("UnicodeProperty") = UnicodeCount(regex)
    /\ pc = "escapes" => CountKind("Lookbehind") = LookbehindCount(regex)
    /\ pc = "newlines" => CountKind("NotNewline") = AnyCharCount(regex)
    /\ pc = "balance" => CountKind("Conditional") = Occurrences(regex, ConditionalOpen)

\* C4, amended: a named back-reference gives one diagnostic per occurrence,
\* each with the name of its occurrence; every other diagnosed construct
\* ( (?> , \p or \P, (?<= or (?<! , \N , (?(1) ) gives exactly one diagnostic
\* when it occurs in the pattern its stage reads, however often it occurs,
\* and none when it does not; the list holds nothing else.
C4_DiagnosticCounts ==
    /\ pc = "non_capturing" =>
           /\ CountKind("NamedGroupReference") = CountNamed(regex, 1, NamedGroupRef, ")")
           /\ Len(warnings_list) = CountKind("NamedGroupReference")
           /\ \A i \in 1..Len(warnings_list) :
                  Contains(regex, NamedGroupRef \o warnings_list[i][2] \o <<")">>)
    /\ pc = "unicode" =>
           CountKind("AtomicGroups") = AtMostOne(Occurrences(regex, AtomicOpen))
    /\ pc = "lookbehind" => CountKind("UnicodeProperty") = AtMostOne(UnicodeCount(regex))
    /\ pc = "escapes" => CountKind("Lookbehind") = AtMostOne(LookbehindCount(regex))
    /\ pc = "newlines" => CountKind("NotNewline") = AtMostOne(AnyCharCount(regex))
    /\ pc = "balance" =>
           CountKind("Conditional") = AtMostOne(Occurrences(regex, ConditionalOpen))
    /\ Len(warnings_list) =
           CountKind("NamedGroupReference") + CountKind("AtomicGroups")
           + CountKind("UnicodeProperty") + CountKind("Lookbehind")
           + CountKind("NotNewline") + CountKind("Conditional")

\* two named back-references and two atomic openers: two diagnostics for the
\* references, one for the atomic groups
C4_Witness ==
    /\ pc = "done"
    /\ CountNamed(original_regex, 1, NamedGroupRef, ")") = 2
    /\ Occurrences(original_regex, AtomicOpen) = 2
    /\ CountKind("NamedGroupReference") = 2
    /\ CountKind("AtomicGroups") = 1
    /\ Len(warnings_list) = 3

(***************************************************************************)
(* C5                                                                      *)
(***************************************************************************)
\* No whitespace outside a character class, no '#' but escaped or in a
\* character class, no inline (?x) marker.
IsDense(s) ==
    /\ \A i \in 1..Len(s) :
           /\ s[i] \in Whitespace => i \in ClassPositions(s)
           /\ s[i] = "#" => (i \in ClassPositions(s) \/ EscapedAt(s)[i])
    /\ ~Contains(s, <<"(", "?", "x", ")">>)

\* C5: handle_verbose_mode returns an already dense pattern unchanged, also
\* one in which '#' is a literal character, such as [#].
C5_VerboseIdempotent ==
    (pc = "convert" /\ VerboseRequested /\ IsDense(regex)) => py_regex = regex

(***************************************************************************)
(* C6                                                                      *)
(***************************************************************************)
Quotes == {"'", "\""}

\* at most one leading 'r', then one quote at each end
StripWrapping(s) ==
    LET a == IF s # <<>> /\ s[1] = "r" THEN Tail(s) ELSE s
        b == IF a # <<>> /\ a[1] \in Quotes THEN Tail(a) ELSE a
        c == IF b # <<>> /\ b[Len(b)] \in Quotes THEN SubSeq(b, 1, Len(b) - 1) ELSE b
    IN  c

\* C6: the first step of the driver removes only the wrapping, at most one
\* leading 'r' and one quote at each end; every other character of the input
\* reaches the later stages.
C6_StripOnlyWrapping == pc = "verbose" => py_regex = StripWrapping(original_regex)

(***************************************************************************)
(* C7                                                                      *)
(***************************************************************************)
RECURSIVE DropLayoutFrom(_, _)
DropLayoutFrom(s, i) ==
    IF i > Len(s) THEN <<>>
    ELSE IF s[i] \in Whitespace /\ i \notin ClassPositions(s) THEN DropLayoutFrom(s, i + 1)
    ELSE <<s[i]>> \o DropLayoutFrom(s, i + 1)

\* s without its whitespace outside the character classes
DropLayout(s) == DropLayoutFrom(s, 1)

\* every unescaped bracket of s belongs to a character class
WellBracketed(s) ==
    \A i \in 1..Len(s) :
        (s[i] \in {"[", "]"} /\ ~EscapedAt(s)[i]) => i \in ClassPositions(s)

\* C7: with VERBOSE set, handle_verbose_mode removes every whitespace
\* character outside a [...] character class and keeps every one inside a
\* class, for every pattern (here: those whose brackets all belong to a
\* class, without a comment and without the inline marker, which the other
\* two rules of the function deal with).
C7_WhitespaceOutsideClasses ==
    (/\ pc = "convert"
     /\ VerboseRequested
     /\ WellBracketed(regex)
     /\ ~Contains(regex, <<"#">>)
     /\ ~Contains(regex, <<"(", "?", "x", ")">>))
        => py_regex = DropLayout(regex)

(***************************************************************************)
(* C8                                                                      *)
(***************************************************************************)
ConditionalStart == <<"(", "?", "(">>

\* (?(n) for a group number or name n
HasConditional(s) == CountNamed(s, 1, ConditionalStart, ")") > 0

\* C8: a conditional (?(n)...|...), for any group number or name n, is left
\* unchanged in the output pattern and has a conditional-patterns diagnostic.
C8_AnyConditionalDiagnosed ==
    (pc = "done" /\ HasConditional(original_regex) /\ flags_str = <<>>)
        => /\ CountKind("Conditional") >= 1
           /\ HasConditional(LiteralBody)

(***************************************************************************)
(* C9                                                                      *)
(***************************************************************************)
\* D[j]: the groups open behind the first j characters of s; an escaped
\* character opens and closes nothing
OpenDepth(s) ==
    LET E == EscapedAt(s)
        D[j \in 0..Len(s)] ==
            IF j = 0 THEN 0
            ELSE IF s[j] = "(" /\ ~E[j] THEN D[j - 1] + 1
            ELSE IF s[j] = ")" /\ ~E[j] /\ D[j - 1] > 0 THEN D[j - 1] - 1
            ELSE D[j - 1]
    IN  D

\* the ')' of s that close nothing
UnmatchedClosers(s) ==
    { j \in 1..Len(s) : s[j] = ")" /\ ~EscapedAt(s)[j] /\ OpenDepth(s)[j - 1] = 0 }

\* s with a backslash put before each unmatched ')' and a ')' appended for
\* each group still open
DefusedAndClosed(s) ==
    LET U == UnmatchedClosers(s)
        Out[j \in 0..Len(s)] ==
            IF j = 0 THEN <<>>
            ELSE Out[j - 1] \o (IF j \in U THEN <<BS, s[j]>> ELSE <<s[j]>>)
    IN  Out[Len(s)] \o [k \in 1..OpenDepth(s)[Len(s)] |-> ")"]

\* out without the characters at the positions in drop
RECURSIVE WithoutPositions(_, _, _)
WithoutPositions(out, i, drop) ==
    IF i > Len(out) THEN <<>>
    ELSE IF i \in drop THEN WithoutPositions(out, i + 1, drop)
    ELSE <<out[i]>> \o WithoutPositions(out, i + 1, drop)

\* where the inserted backslashes are in the output: the k-th unmatched ')' at
\* j of the input has its backslash at j + k - 1
InsertedPositions(s) ==
    LET U == UnmatchedClosers(s)
    IN  { j + Cardinality({u \in U : u < j}) : j \in U }

\* C9: balance_parentheses drops and reorders nothing: its output is its input
\* with each unmatched ')' replaced in place by \) , every backslash pair (and
\* a last lone backslash) copied, and as many ')' appended as '(' are open at
\* the end; without the inserted backslashes and the appended ')' it is the
\* input again.
C9_BalanceKeepsInput ==
    pc = "flags" =>
        /\ js_regex = DefusedAndClosed(regex)
        /\ Len(js_regex) = Len(regex) + Cardinality(UnmatchedClosers(regex))
                               + OpenDepth(regex)[Len(regex)]
        /\ WithoutPositions(SubSeq(js_regex, 1,
                                   Len(js_regex) - OpenDepth(regex)[Len(regex)]),
                            1, InsertedPositions(regex)) = regex

\* an unmatched ')', an escaped '(', a group left open and a last lone backslash
C9_Witness ==
    /\ pc = "flags"
    /\ regex = <<")", BS, "(", "(", BS>>
    /\ js_regex = <<BS, ")", BS, "(", "(", BS, ")">>

(***************************************************************************)
(* C10                                                                     *)
(***************************************************************************)
\* the openers of the constructs the rewrite rules and the diagnostics look for
RewrittenOpeners ==
    { <<BS, "A">>, <<BS, "Z">>, <<BS, "a">>, <<BS, "N">>, <<BS, "p">>, <<BS, "P">>,
      NamedGroupOpen, NamedGroupRef, NonCapturingOpen, AtomicOpen,
      <<"(", "?", "<", "=">>, <<"(", "?", "<", "!">>, ConditionalStart, <<NL>> }

\* An opener starts at i as a construct of the pattern: i is outside every
\* character class and is not the second character of an escape pair.
HasConstruct(s) ==
    \E i \in 1..Len(s) :
        /\ \E o \in RewrittenOpeners : MatchAt(s, i, o)
        /\ i \notin ClassPositions(s)
        /\ ~EscapedAt(s)[i]

\* C10: no rewrite rule changes text inside a character class or inside an
\* escape pair: a pattern whose only openers lie there (an A behind an escaped
\* backslash, (?> or \N inside [...]) leaves the rewrite rules as it entered
\* them, and without a diagnostic.
C10_ProtectedSpansUntouched ==
    (pc = "balance" /\ ~HasConstruct(py_regex))
        => /\ js_regex = py_regex
           /\ warnings_list = <<>>

====
